---- MODULE Spec2Model ----
(***************************************************************************)
(* A model of agaru-up-api (src/app/agaru_up_api.py, the later of the two  *)
(* copies of the file under src/): the report pipeline                     *)
(* (capture fetch -> object-store upload -> metadata insert) run by        *)
(* several concurrent requests, and the read endpoints over the videos and *)
(* cameras tables.                                                         *)
(*                                                                         *)
(* Text is modelled as a sequence of one-character strings, so that the    *)
(* code's split / strip / join and SQLite's LIKE are computed, not assumed.*)
(* An Optional value is a sequence of length 0 (None) or 1.                *)
(***************************************************************************)
EXTENDS Integers, Sequences, FiniteSets, TLC

VARIABLES
    videos,      \* the videos table, in rowid order (rowid = position)
    cameras,     \* the cameras table, a set of rows
    objects,     \* the keys stored in the Object Store bucket
    runs,        \* each report request: its position in report_agereport and its locals
    open_conns,  \* number of sqlite connections opened and not yet closed
    reply        \* the reply to the last read request (search, tags, bulk, camera)

vars == <<videos, cameras, objects, runs, open_conns, reply>>

---------------------------------------------------------------------------
(* Bounds of the model *)

\* number of report requests that may be in flight together
NumRuns == 2
\* number of values uuid.uuid4() can return (small, so that collisions happen)
NumIds == 3
\* largest instant a clock or a generateDate can show
MaxTime == 3
\* most rows the videos table holds when a read request arrives
MaxRows == 3
\* most ids in one bulk request
MaxBulk == 3
\* largest limit of a search (the code allows 1..50)
MaxLimit == 2

Runs == 1..NumRuns
Times == 1..MaxTime

---------------------------------------------------------------------------
(* Program constants *)

HTTP_200 == 200
HTTP_201_CREATED == 201
HTTP_500 == 500
HTTP_502 == 502
HTTP_503 == 503
HTTP_404 == 404

\* R2_PUBLIC_URL: the default ends without a slash; a configured one may end with one
public_url == <<"h", "/">>

\* tags = ["未来創造展", "アガる", "未来創造展2026", "HAL大阪"], written m, a, m2, h
DEFAULT_TAGS == << <<"m">>, <<"a">>, <<"m", "2">>, <<"h">> >>

\* the title candidates random.choice draws from (one of the twelve)
FUTURE_TITLES == {<<"t", "1">>}

---------------------------------------------------------------------------
(* Text helpers: Python's str.strip, str.split(","), ",".join *)

RECURSIVE lstrip(_)
lstrip(s) == IF s # <<>> /\ Head(s) = " " THEN lstrip(Tail(s)) ELSE s

RECURSIVE rstrip(_)
rstrip(s) ==
    IF s # <<>> /\ s[Len(s)] = " " THEN rstrip(SubSeq(s, 1, Len(s) - 1)) ELSE s

strip(s) == rstrip(lstrip(s))

RECURSIVE rstrip_slash(_)
rstrip_slash(s) ==
    IF s # <<>> /\ s[Len(s)] = "/" THEN rstrip_slash(SubSeq(s, 1, Len(s) - 1)) ELSE s

\* s.split(","): always at least one piece; "" splits to [""]
RECURSIVE split(_)
split(s) ==
    IF \A i \in 1..Len(s) : s[i] # ","
    THEN <<s>>
    ELSE LET k == CHOOSE i \in 1..Len(s) :
                      s[i] = "," /\ \A j \in 1..(i - 1) : s[j] # ","
         IN  <<SubSeq(s, 1, k - 1)>> \o split(SubSeq(s, k + 1, Len(s)))

RECURSIVE join(_)
join(parts) ==
    IF parts = <<>> THEN <<>>
    ELSE IF Len(parts) = 1 THEN parts[1]
    ELSE parts[1] \o <<",">> \o join(Tail(parts))

\* [t.strip() for t in xs if t.strip()]
strip_nonempty(xs) ==
    LET stripped == [i \in 1..Len(xs) |-> strip(xs[i])]
    IN  SelectSeq(stripped, LAMBDA t : t # <<>>)

---------------------------------------------------------------------------
(* The report pipeline: report_agereport *)

Digits == <<"1", "2", "3", "4", "5", "6", "7", "8", "9">>

\* the values str(uuid.uuid4()) can take
MovieIds == {<<"u", Digits[i]>> : i \in 1..NumIds}

\* r2_key = f"{movie_id}.mp4"
r2_key(movie_id) == movie_id \o <<".mp4">>

\* the requests a caller may send (ReportRequest)
Requests ==
    {[user |-> "user1", location |-> <<"c", "1">>, title |-> <<>>, tags |-> <<>>,
      generateDate |-> <<>>],
     [user |-> "user2", location |-> <<"c", "1">>, title |-> << <<"m", "y">> >>,
      tags |-> << << <<" ", "x">>, <<" ">>, <<"y">> >> >>, generateDate |-> <<1>>],
     [user |-> "user1", location |-> <<"c", "2">>, title |-> << <<>> >>,
      tags |-> << << <<"x">> >> >>, generateDate |-> <<>>]}

\* what datetime.now can show when an insert runs: the earliest or the latest instant
Clock == {1, MaxTime}

NoRequest ==
    [user |-> "", location |-> <<>>, title |-> <<>>, tags |-> <<>>,
     generateDate |-> <<>>]

IdleRun ==
    [pc |-> "idle", report |-> NoRequest, resp_status |-> 0, movie_id |-> <<>>,
     s3 |-> FALSE, uploaded |-> FALSE, status |-> 0, ret |-> <<>>]

NoReply == [op |-> "none", args |-> <<>>, db |-> "ok", status |-> 0, body |-> <<>>]

Init ==
    /\ videos = <<>>
    /\ cameras = {}
    /\ objects = {}
    /\ runs = [r \in Runs |-> IdleRun]
    /\ open_conns = 0
    /\ reply = NoReply

---------------------------------------------------------------------------
(* POST /report, one action per blocking step of the handler.  Handlers run
   in the framework's thread pool, so the steps of different requests
   interleave. *)

\* the request arrives and requests.get(raspi_host, stream=True, timeout=600) is issued
Receive(r, req) ==
    /\ runs[r].pc = "idle"
    /\ runs' = [runs EXCEPT ![r] = [@ EXCEPT !.pc = "FETCHING", !.report = req]]
    /\ UNCHANGED <<videos, cameras, objects, open_conns, reply>>

\* what requests.get can do: return a response with some status, or raise
FetchOutcomes == {"status200", "status404", "RequestException"}

\* fetch_return without the status check of lines 266-268
fetch_return_unchecked(run, out) ==
    IF out = "RequestException"
    THEN [run EXCEPT !.pc = "FAILED_fetch", !.status = HTTP_502]
    ELSE [run EXCEPT !.pc = "FETCHED",
                     !.resp_status = IF out = "status200" THEN HTTP_200 ELSE 404]

\* requests.get returns or raises; a non-200 status is refused
fetch_return(run, out) ==
    IF out = "RequestException"
    THEN [run EXCEPT !.pc = "FAILED_fetch", !.status = HTTP_502]
    ELSE LET code == IF out = "status200" THEN HTTP_200 ELSE 404
         IN  IF code # HTTP_200
             THEN [run EXCEPT !.pc = "FAILED_fetch", !.resp_status = code,
                              !.status = HTTP_502]
             ELSE [run EXCEPT !.pc = "FETCHED", !.resp_status = code]

FetchReturn(r, out) ==
    /\ runs[r].pc = "FETCHING"
    /\ runs' = [runs EXCEPT ![r] = fetch_return(@, out)]
    /\ UNCHANGED <<videos, cameras, objects, open_conns, reply>>

\* what _get_s3_client can do: return a client, raise RuntimeError (no boto3),
\* or raise from boto3.client (not caught by the handler: the framework answers 500)
ClientOutcomes == {"client", "RuntimeError", "OtherError"}

\* begin_upload with only RuntimeError answered: another error of boto3.client
\* is logged and the handler goes on
begin_upload_lenient(run, id, out) ==
    IF out = "RuntimeError"
    THEN [run EXCEPT !.pc = "FAILED_upload", !.movie_id = id, !.status = HTTP_500]
    ELSE [run EXCEPT !.pc = "UPLOADING", !.movie_id = id, !.s3 = (out = "client")]

\* movie_id = str(uuid.uuid4()); s3 = _get_s3_client(); upload_fileobj is issued
begin_upload(run, id, out) ==
    IF out = "client"
    THEN [run EXCEPT !.pc = "UPLOADING", !.movie_id = id, !.s3 = TRUE]
    ELSE [run EXCEPT !.pc = "FAILED_upload", !.movie_id = id, !.status = HTTP_500]

BeginUpload(r, id, out) ==
    /\ runs[r].pc = "FETCHED"
    /\ runs' = [runs EXCEPT ![r] = begin_upload(@, id, out)]
    /\ UNCHANGED <<videos, cameras, objects, open_conns, reply>>

\* upload_return with the upload error swallowed (logged, not raised)
upload_return_swallowed(run, ok) ==
    [run EXCEPT !.pc = "UPLOADED", !.uploaded = ok]

\* s3.upload_fileobj returns (the object is stored under r2_key) or raises
upload_return(run, ok) ==
    IF ok
    THEN [run EXCEPT !.pc = "UPLOADED", !.uploaded = TRUE]
    ELSE [run EXCEPT !.pc = "FAILED_upload", !.status = HTTP_500]

UploadReturn(r, ok) ==
    /\ runs[r].pc = "UPLOADING"
    /\ runs' = [runs EXCEPT ![r] = upload_return(@, ok)]
    /\ objects' = IF ok THEN objects \cup {r2_key(runs[r].movie_id)} ELSE objects
    /\ UNCHANGED <<videos, cameras, open_conns, reply>>

\* conn = get_conn(): a connection, or HTTPException(503) when sqlite3.connect fails
BeginPersist(r, connected) ==
    /\ runs[r].pc = "UPLOADED"
    /\ runs' = [runs EXCEPT ![r] =
                   IF connected
                   THEN [@ EXCEPT !.pc = "PERSISTING"]
                   ELSE [@ EXCEPT !.pc = "FAILED_connect", !.status = HTTP_503]]
    /\ open_conns' = IF connected THEN open_conns + 1 ELSE open_conns
    /\ UNCHANGED <<videos, cameras, objects, reply>>

\* unique_ok of a schema without UNIQUE on movieId
unique_ok_unconstrained(table, movie_id) == TRUE

\* movieId TEXT UNIQUE: an insert of a movieId the table holds raises IntegrityError
unique_ok(table, movie_id) ==
    \A i \in 1..Len(table) : table[i].movieId # movie_id

\* created_at: the request's generateDate when given, else the clock
created_at(report, now) ==
    IF report.generateDate # <<>> THEN report.generateDate[1] ELSE now

\* title = report.title or random.choice(FUTURE_TITLES)
resolve_title(report, choice) ==
    IF report.title # <<>> /\ report.title[1] # <<>> THEN report.title[1] ELSE choice

\* tags = [the fixed list]; tags_str = ",".join([t.strip() for t in tags if t.strip()])
resolve_tags(report) ==
    LET tags == DEFAULT_TAGS
    IN  IF tags # <<>> THEN join(strip_nonempty(tags)) ELSE <<>>

\* the row INSERT INTO videos (...) VALUES (...) writes
new_row(run, now, choice) ==
    [title |-> resolve_title(run.report, choice),
     tags |-> resolve_tags(run.report),
     location |-> run.report.location,
     baseUrl |-> public_url,
     movieId |-> run.movie_id,
     createdAt |-> created_at(run.report, now)]

\* the insert commits unless execute or commit raises sqlite3.Error:
\* db_ok = FALSE (locked, disk, ...) or the UNIQUE constraint fails
insert_commits(table, movie_id, db_ok) ==
    db_ok /\ unique_ok(table, movie_id)

\* table_after_insert on a connection in autocommit mode: the row stays when
\* commit raises
table_after_insert_autocommit(table, row, committed) ==
    Append(table, row)

\* table_after_insert with a cleanup in except sqlite3.Error that deletes the
\* rows of the run's movieId (DELETE FROM videos WHERE movieId = ?)
table_after_insert_cleanup(table, row, committed) ==
    IF committed THEN Append(table, row)
    ELSE SelectSeq(table, LAMBDA old : old.movieId # row.movieId)

\* the table after execute + commit, or after the failed transaction is
\* dropped by conn.close()
table_after_insert(table, row, committed) ==
    IF committed THEN Append(table, row) ELSE table

\* objects_after_persist with a compensating delete in except sqlite3.Error
objects_after_persist_compensating(objs, key, committed) ==
    IF committed THEN objs ELSE objs \ {key}

\* the bucket after the persist stage: except sqlite3.Error only raises, the
\* uploaded object is not deleted
objects_after_persist(objs, key, committed) == objs

\* persist_return with the database error logged and not raised
persist_return_swallowed(run, committed) ==
    [run EXCEPT !.pc = "DONE", !.status = HTTP_201_CREATED, !.ret = run.movie_id]

\* persist_return with a failed insert retried: back to acquiring a connection
persist_return_retry(run, committed) ==
    IF committed
    THEN [run EXCEPT !.pc = "DONE", !.status = HTTP_201_CREATED,
                     !.ret = run.movie_id]
    ELSE [run EXCEPT !.pc = "UPLOADED"]

\* return {..., "movieId": movie_id, ...} with 201, or HTTPException(500)
persist_return(run, committed) ==
    IF committed
    THEN [run EXCEPT !.pc = "DONE", !.status = HTTP_201_CREATED,
                     !.ret = run.movie_id]
    ELSE [run EXCEPT !.pc = "FAILED_persist", !.status = HTTP_500]

\* cur.execute(INSERT); conn.commit(); finally conn.close(); return {...}
Insert(r, now, choice, db_ok) ==
    /\ runs[r].pc = "PERSISTING"
    /\ LET committed == insert_commits(videos, runs[r].movie_id, db_ok)
       IN  /\ videos' = table_after_insert(videos, new_row(runs[r], now, choice),
                                           committed)
           /\ objects' = objects_after_persist(objects, r2_key(runs[r].movie_id),
                                               committed)
           /\ runs' = [runs EXCEPT ![r] = persist_return(@, committed)]
    /\ open_conns' = open_conns - 1
    /\ UNCHANGED <<cameras, reply>>

Next ==
    \/ \E r \in Runs, req \in Requests : Receive(r, req)
    \/ \E r \in Runs, out \in FetchOutcomes : FetchReturn(r, out)
    \/ \E r \in Runs, id \in MovieIds, out \in ClientOutcomes : BeginUpload(r, id, out)
    \/ \E r \in Runs, ok \in BOOLEAN : UploadReturn(r, ok)
    \/ \E r \in Runs, connected \in BOOLEAN : BeginPersist(r, connected)
    \/ \E r \in Runs, now \in Clock, choice \in FUTURE_TITLES, db_ok \in BOOLEAN :
           Insert(r, now, choice, db_ok)

Spec == Init /\ [][Next]_vars

---------------------------------------------------------------------------
(* The read endpoints *)

UpperCase == <<"A", "B", "X", "Y">>
LowerCase == <<"a", "b", "x", "y">>

\* SQLite's LIKE compares ASCII letters without regard to case
fold(c) ==
    IF \E i \in 1..Len(UpperCase) : UpperCase[i] = c
    THEN LowerCase[CHOOSE i \in 1..Len(UpperCase) : UpperCase[i] = c]
    ELSE c

\* text LIKE pattern, as SQLite evaluates it: % matches any run of characters,
\* _ any one character, anything else itself up to ASCII case
RECURSIVE like(_, _)
like(text, pattern) ==
    IF pattern = <<>> THEN text = <<>>
    ELSE IF Head(pattern) = "%"
         THEN \E k \in 0..Len(text) :
                  like(SubSeq(text, k + 1, Len(text)), Tail(pattern))
    ELSE IF text = <<>> THEN FALSE
    ELSE /\ Head(pattern) = "_" \/ fold(Head(pattern)) = fold(Head(text))
         /\ like(Tail(text), Tail(pattern))

\* row_to_video: tags split on commas without the empty pieces, url built from
\* baseUrl and movieId.  createdAt is an instant; the conversion to Asia/Tokyo
\* shows the same instant.
row_to_video(row) ==
    [title |-> row.title,
     tags |-> IF row.tags # <<>>
              THEN SelectSeq(split(row.tags), LAMBDA t : t # <<>>)
              ELSE <<>>,
     location |-> row.location,
     generateDate |-> row.createdAt,
     baseUrl |-> row.baseUrl,
     movieId |-> row.movieId,
     url |-> rstrip_slash(row.baseUrl) \o <<"/">> \o row.movieId \o <<".mp4">>]

\* the orders in which ORDER BY createdAt can return the rows idx of a table:
\* rows of equal createdAt come in any order
Orderings(table, idx, descending) ==
    {ord \in [1..Cardinality(idx) -> idx] :
        /\ \A i, j \in 1..Cardinality(idx) : i # j => ord[i] # ord[j]
        /\ \A i, j \in 1..Cardinality(idx) :
               i < j => IF descending
                        THEN table[ord[i]].createdAt >= table[ord[j]].createdAt
                        ELSE table[ord[i]].createdAt <= table[ord[j]].createdAt}

\* tag_list = [t.strip() for t in tags.split(",") if t.strip()]
tag_list(tags) == strip_nonempty(split(tags))

\* AND (',' || tags || ',') LIKE '%,t,%'
tag_clause(row, t) ==
    like(<<",">> \o row.tags \o <<",">>, <<"%", ",">> \o t \o <<",", "%">>)

\* AND (title LIKE '%q%' OR location LIKE '%q%')
q_clause(row, q) ==
    \/ like(row.title, <<"%">> \o q \o <<"%">>)
    \/ like(row.location, <<"%">> \o q \o <<"%">>)

\* the WHERE clause list_videos builds; q and tags are Optional[str], and an
\* empty string is skipped like None
where_clause(row, q, tags) ==
    /\ (q # <<>> /\ q[1] # <<>>) => q_clause(row, q[1])
    /\ (tags # <<>> /\ tags[1] # <<>>) =>
           \A k \in 1..Len(tag_list(tags[1])) : tag_clause(row, tag_list(tags[1])[k])

\* the bodies list_videos can return: the matching rows, newest first, cut to limit
list_videos(table, q, tags, limit) ==
    LET idx == {i \in 1..Len(table) : where_clause(table[i], q, tags)}
        n == IF Cardinality(idx) < limit THEN Cardinality(idx) ELSE limit
    IN  {[k \in 1..n |-> row_to_video(table[ord[k]])] :
            ord \in Orderings(table, idx, TRUE)}

\* the rows SELECT DISTINCT tags ... WHERE tags != '' ORDER BY createdAt ASC can
\* return: one row for each distinct tags value, ordered by the createdAt of
\* the row that stands for it.  SQLite scans the table in rowid order (no
\* index covers the query) and DISTINCT keeps the first row of each value, so
\* the row of lowest rowid stands for its value.
distinct_tags(table) ==
    LET kept == {i \in 1..Len(table) :
                    /\ table[i].tags # <<>>
                    /\ \A j \in 1..(i - 1) : table[j].tags # table[i].tags}
    IN  {[k \in 1..Cardinality(kept) |-> table[ord[k]].tags] :
            ord \in Orderings(table, kept, FALSE)}

\* for t in pieces: if t not in seen: seen.add(t); unique_tags.append(t)
RECURSIVE append_unseen(_, _)
append_unseen(pieces, acc) ==
    IF pieces = <<>> THEN acc
    ELSE IF \E k \in 1..Len(acc) : acc[k] = Head(pieces)
         THEN append_unseen(Tail(pieces), acc)
    ELSE append_unseen(Tail(pieces), Append(acc, Head(pieces)))

\* the loop of list_tags over the fetched rows: the stripped, non-empty pieces
\* of each tags string, each appended when first seen
RECURSIVE unique_tags(_, _)
unique_tags(rows, acc) ==
    IF rows = <<>> THEN acc
    ELSE unique_tags(Tail(rows),
                     append_unseen(strip_nonempty(split(Head(rows))), acc))

\* the bodies list_tags can return
list_tags(table) == {unique_tags(rows, <<>>) : rows \in distinct_tags(table)}

\* id_map = {row["movieId"]: row_to_video(row) for row in rows}: the last row
\* of a movieId wins
id_map(table, ids) ==
    LET rows == {i \in 1..Len(table) : \E k \in 1..Len(ids) : table[i].movieId = ids[k]}
        keys == {table[i].movieId : i \in rows}
    IN  [m \in keys |->
            row_to_video(table[CHOOSE i \in rows :
                                   /\ table[i].movieId = m
                                   /\ \A j \in rows : table[j].movieId = m => j <= i])]

\* for vid in request.videos: video = id_map.get(vid); if video: results.append(video)
RECURSIVE bulk_results(_, _)
bulk_results(map, ids) ==
    IF ids = <<>> THEN <<>>
    ELSE IF Head(ids) \in DOMAIN map
         THEN <<map[Head(ids)]>> \o bulk_results(map, Tail(ids))
         ELSE bulk_results(map, Tail(ids))

\* videos_bulk returning the rows of the IN query as fetched (in table order,
\* each once)
videos_bulk_as_fetched(table, ids) ==
    LET hit == SelectSeq([i \in 1..Len(table) |-> table[i]],
                         LAMBDA row : \E k \in 1..Len(ids) : row.movieId = ids[k])
    IN  [i \in 1..Len(hit) |-> row_to_video(hit[i])]

\* the body videos_bulk returns
videos_bulk(table, ids) ==
    IF ids = <<>> THEN <<>> ELSE bulk_results(id_map(table, ids), ids)

\* what the database does to a read request: it works, sqlite3.connect fails
\* (get_conn answers 503), or the query raises sqlite3.Error
DbOutcomes == {"ok", "connect_error", "query_error"}

\* the status of a read request: list_videos turns a query error into
\* HTTPException(500); elsewhere it is unhandled, which the framework answers with 500
read_status(db) ==
    IF db = "connect_error" THEN HTTP_503
    ELSE IF db = "query_error" THEN HTTP_500
    ELSE HTTP_200

\* conns_after_read with conn.close() as the last statement of the try block
\* instead of a finally clause: an exception skips it
conns_after_read_no_finally(n, db) ==
    IF db = "connect_error" THEN n ELSE IF db = "query_error" THEN n + 1 ELSE (n + 1) - 1

\* the connections open after a read request: get_conn opened one unless
\* connect failed, and finally: conn.close() closed it
conns_after_read(n, db) ==
    IF db = "connect_error" THEN n ELSE (n + 1) - 1

\* GET /videos
ListVideos(q, tags, limit, db) ==
    /\ reply = NoReply
    /\ \E body \in list_videos(videos, q, tags, limit) :
           reply' = [op |-> "list_videos",
                     args |-> [q |-> q, tags |-> tags, limit |-> limit],
                     db |-> db, status |-> read_status(db),
                     body |-> IF db = "ok" THEN body ELSE <<>>]
    /\ open_conns' = conns_after_read(open_conns, db)
    /\ UNCHANGED <<videos, cameras, objects, runs>>

\* GET /tags
ListTags(db) ==
    /\ reply = NoReply
    /\ \E body \in list_tags(videos) :
           reply' = [op |-> "list_tags", args |-> <<>>,
                     db |-> db, status |-> read_status(db),
                     body |-> IF db = "ok" THEN body ELSE <<>>]
    /\ open_conns' = conns_after_read(open_conns, db)
    /\ UNCHANGED <<videos, cameras, objects, runs>>

\* POST /videos/bulk; an empty request returns before any query is made
VideosBulk(ids, db) ==
    /\ reply = NoReply
    /\ LET failed == db = "connect_error" \/ (db = "query_error" /\ ids # <<>>)
       IN  reply' = [op |-> "videos_bulk", args |-> ids,
                     db |-> db, status |-> IF failed THEN read_status(db) ELSE HTTP_200,
                     body |-> IF failed THEN <<>> ELSE videos_bulk(videos, ids)]
    /\ open_conns' = conns_after_read(open_conns, db)
    /\ UNCHANGED <<videos, cameras, objects, runs>>

\* the Camera model of a cameras row
row_to_camera(row) ==
    [name |-> row.name, id |-> row.id,
     coordinate |-> [lat |-> row.latitude, lng |-> row.longitude], url |-> row.url]

\* SELECT * FROM cameras WHERE id = ?: the rows fetchone can return (id is the
\* primary key, so at most one)
camera_rows(table, id) == {row \in table : row.id = id}

\* GET /cameras/{id}: the camera when a row has this id, else NotFound
GetCamera(id, db) ==
    /\ reply = NoReply
    /\ LET found == camera_rows(cameras, id)
       IN  reply' = [op |-> "get_camera", args |-> id, db |-> db,
                     status |-> IF db # "ok" THEN read_status(db)
                                ELSE IF found # {} THEN HTTP_200 ELSE HTTP_404,
                     body |-> IF db = "ok" /\ found # {}
                              THEN <<row_to_camera(CHOOSE row \in found : TRUE)>>
                              ELSE <<>>]
    /\ open_conns' = conns_after_read(open_conns, db)
    /\ UNCHANGED <<videos, cameras, objects, runs>>

\* the handler has returned and the framework sends the reply; the next read
\* request is taken after that
SendReply ==
    /\ reply # NoReply
    /\ reply' = NoReply
    /\ UNCHANGED <<videos, cameras, objects, runs, open_conns>>

---------------------------------------------------------------------------
(* The read endpoints over a table that reports have filled before *)

\* title, location and tags of stored rows: tags as report_agereport joins
\* them (stripped, non-empty pieces), or empty
StoredRows ==
    {[title |-> <<"t", "1">>, location |-> <<"c", "1">>, tags |-> <<"a", ",", "b">>],
     [title |-> <<"m", "y">>, location |-> <<"c", "2">>, tags |-> <<"a", "b">>],
     [title |-> <<"t", "1">>, location |-> <<"c", "2">>, tags |-> <<"A">>],
     [title |-> <<"m", "y">>, location |-> <<"c", "1">>, tags |-> <<>>]}

Min(a, b) == IF a < b THEN a ELSE b

\* the tables of at most n rows, the i-th with the i-th movieId, and title,
\* location and tags from rows, createdAt from times
Tables(rows, times, n) ==
    UNION {{[i \in 1..k |->
                [title |-> f[i].row.title, tags |-> f[i].row.tags,
                 location |-> f[i].row.location, baseUrl |-> public_url,
                 movieId |-> <<"u", Digits[i]>>, createdAt |-> f[i].at]] :
              f \in [1..k -> [row : rows, at : times]]} :
           k \in 0..Min(n, NumIds)}

InitTable(tables) ==
    /\ videos \in tables
    /\ cameras = {}
    /\ objects = {r2_key(videos[i].movieId) : i \in 1..Len(videos)}
    /\ runs = [r \in Runs |-> IdleRun]
    /\ open_conns = 0
    /\ reply = NoReply

\* the bulk requests: any sequence of at most MaxBulk ids
BulkRequests == UNION {[1..k -> MovieIds] : k \in 0..MaxBulk}

InitBulk ==
    InitTable(Tables({r \in StoredRows : r.tags # <<>> /\ r.location = <<"c", "2">>},
                     {1}, MaxRows))

NextBulk ==
    \/ \E ids \in BulkRequests, db \in DbOutcomes : VideosBulk(ids, db)
    \/ SendReply

SpecBulk == InitBulk /\ [][NextBulk]_vars

\* the q and tags parameters of a search
SearchQ == {<<>>, << <<"c", "1">> >>, << <<>> >>}
SearchTags ==
    {<<>>, << <<"a">> >>, << <<"b", ",", " ", "a", " ", ",">> >>, << <<"A">> >>,
     << <<"_">> >>, << <<" ">> >>}

InitRead == InitTable(Tables(StoredRows, Times, MaxRows))

NextRead ==
    \/ \E q \in SearchQ, tags \in SearchTags, limit \in 1..MaxLimit, db \in DbOutcomes :
           ListVideos(q, tags, limit, db)
    \/ \E db \in DbOutcomes : ListTags(db)
    \/ SendReply

SpecRead == InitRead /\ [][NextRead]_vars

---------------------------------------------------------------------------
(* The report pipeline when every blocking call returns *)

\* the reports sent here: those that carry their own generateDate
LiveRequests == {req \in Requests : req.generateDate # <<>>}

\* the next step of run r once it is started: the call it waits for (the
\* fetch, the client construction, the upload, the connect, the insert)
\* returns or raises
RunStep(r) ==
    \/ \E out \in FetchOutcomes : FetchReturn(r, out)
    \/ \E id \in MovieIds, out \in ClientOutcomes : BeginUpload(r, id, out)
    \/ \E ok \in BOOLEAN : UploadReturn(r, ok)
    \/ \E connected \in BOOLEAN : BeginPersist(r, connected)
    \/ \E now \in Clock, choice \in FUTURE_TITLES, db_ok \in BOOLEAN :
           Insert(r, now, choice, db_ok)

\* each run has its own worker thread, and the fetch (bounded by its timeout),
\* the upload and the insert each return or raise: a started run that can
\* step does step. Requests need not arrive.
NextLive ==
    \/ \E r \in Runs, req \in LiveRequests : Receive(r, req)
    \/ \E r \in Runs : RunStep(r)

SpecLive == Init /\ [][NextLive]_vars /\ \A r \in Runs : WF_vars(RunStep(r))

---------------------------------------------------------------------------
(* The whole service: reports in flight while the read endpoints are called *)

\* the cameras table, provisioned outside the service
ProvisionedCameras ==
    {[id |-> <<"c", "1">>, name |-> <<"n", "1">>, latitude |-> 1, longitude |-> 2,
      url |-> <<"h", "/", "c", "1">>]}

\* the camera ids asked for: one provisioned, one not
CameraIds == {<<"c", "1">>, <<"c", "2">>}

\* the reports sent here
ServiceRequests == LiveRequests

\* the reads sent here
ServiceBulk == {ids \in BulkRequests : Len(ids) <= 1 /\ \A k \in 1..Len(ids) : ids[k] = <<"u", Digits[1]>>}

InitService ==
    /\ videos = <<>>
    /\ cameras = ProvisionedCameras
    /\ objects = {}
    /\ runs = [r \in Runs |-> IdleRun]
    /\ open_conns = 0
    /\ reply = NoReply

NextService ==
    \/ \E r \in Runs, req \in ServiceRequests : Receive(r, req)
    \/ \E r \in Runs, out \in FetchOutcomes : FetchReturn(r, out)
    \/ \E r \in Runs, id \in MovieIds, out \in ClientOutcomes : BeginUpload(r, id, out)
    \/ \E r \in Runs, ok \in BOOLEAN : UploadReturn(r, ok)
    \/ \E r \in Runs, connected \in BOOLEAN : BeginPersist(r, connected)
    \/ \E r \in Runs, now \in Clock, choice \in FUTURE_TITLES, db_ok \in BOOLEAN :
           Insert(r, now, choice, db_ok)
    \/ \E db \in DbOutcomes : ListVideos(<<>>, <<>>, 1, db)
    \/ \E db \in DbOutcomes : ListTags(db)
    \/ \E ids \in ServiceBulk, db \in DbOutcomes : VideosBulk(ids, db)
    \/ \E id \in CameraIds, db \in DbOutcomes : GetCamera(id, db)
    \/ SendReply

SpecService == InitService /\ [][NextService]_vars

---------------------------------------------------------------------------
(* Properties of the report pipeline *)

\* the outcomes the pipeline's state machine names, and the positions at which
\* the handler has returned (get_conn's 503 is one more)
NamedOutcomes == {"DONE", "FAILED_fetch", "FAILED_upload", "FAILED_persist"}
Terminal == NamedOutcomes \cup {"FAILED_connect"}

\* the rows of a table that hold a movieId
RowsWith(table, movie_id) == {i \in 1..Len(table) : table[i].movieId = movie_id}

\* run r took a step
Stepped(r) == runs'[r] # runs[r]

\* C1: every row of the videos table has its object, movieId + ".mp4", in the
\* Object Store: no row is inserted before its upload succeeded.
C1_RowHasObject ==
    \A i \in 1..Len(videos) : r2_key(videos[i].movieId) \in objects

\* a row exists, inserted by one run, while another run's upload has failed
C1_Witness ==
    /\ Len(videos) >= 1
    /\ \E r \in Runs : runs[r].pc = "FAILED_upload" /\ runs[r].s3

\* C2 as stated: for every terminated run, a record with its movieId exists
\* if and only if its upload succeeded.
C2_Original ==
    \A r \in Runs :
        runs[r].pc \in NamedOutcomes =>
            ((RowsWith(videos, runs[r].movie_id) # {}) <=> runs[r].uploaded)

\* C2 amended: a run inserts a record with its movieId exactly when it reaches
\* DONE, which needs its upload to have succeeded; every other step of every
\* run leaves the table as it is, so a run whose upload succeeded and whose
\* persist stage failed has an object and no record.
C2_RecordIffDone ==
    [][/\ \A r \in Runs :
              (runs[r].pc # "DONE" /\ runs'[r].pc = "DONE") =>
                  /\ runs[r].uploaded
                  /\ r2_key(runs[r].movie_id) \in objects
                  /\ Len(videos') = Len(videos) + 1
                  /\ SubSeq(videos', 1, Len(videos)) = videos
                  /\ videos'[Len(videos')].movieId = runs[r].movie_id
       /\ videos' # videos =>
              \E r \in Runs : runs[r].pc # "DONE" /\ runs'[r].pc = "DONE"
       /\ \A r \in Runs :
              runs'[r].pc = "DONE" => RowsWith(videos', runs'[r].movie_id) # {}
      ]_vars

\* a run ended in FAILED(persist) with its object stored and no record of its movieId
C2_Witness ==
    \E r \in Runs :
        /\ runs[r].pc = "FAILED_persist"
        /\ runs[r].uploaded
        /\ RowsWith(videos, runs[r].movie_id) = {}
        /\ \E q \in Runs : runs[q].pc = "DONE"

\* C3: when the capture fetch fails (an exception, or a status other than 200)
\* the report ends with 502, no upload is started (no movieId is minted, no
\* client is made, nothing is stored), and neither table nor bucket changes
\* in any step of that report.
C3_FetchFailure ==
    [][\A r \in Runs :
           /\ (runs[r].pc \in {"idle", "FETCHING"} /\ Stepped(r)) =>
                  /\ videos' = videos
                  /\ objects' = objects
                  /\ open_conns' = open_conns
           /\ (runs[r].pc = "FETCHING" /\ Stepped(r)) =>
                  /\ runs'[r].pc \in {"FETCHED", "FAILED_fetch"}
                  /\ runs'[r].pc = "FETCHED" <=> runs'[r].resp_status = HTTP_200
           /\ runs'[r].pc = "FAILED_fetch" =>
                  /\ runs'[r].status = HTTP_502
                  /\ runs'[r].movie_id = <<>>
                  /\ ~runs'[r].s3
                  /\ ~runs'[r].uploaded
           /\ runs[r].pc = "FAILED_fetch" => ~Stepped(r)
      ]_vars

\* one report failed on a non-200 status and another on an exception
C3_Witness ==
    \E r, q \in Runs :
        /\ runs[r].pc = "FAILED_fetch" /\ runs[r].resp_status = 404
        /\ runs[q].pc = "FAILED_fetch" /\ runs[q].resp_status = 0

\* C4: when the object-store stage fails (the client cannot be made, or the
\* upload raises) the report ends with 500, the persist stage is never
\* started (no connection is opened, the run takes no further step) and no
\* record is created.
C4_UploadFailure ==
    [][\A r \in Runs :
           /\ (runs[r].pc \in {"FETCHED", "UPLOADING"} /\ Stepped(r)) =>
                  /\ videos' = videos
                  /\ open_conns' = open_conns
           /\ (runs[r].pc = "FETCHED" /\ Stepped(r)) =>
                  /\ runs'[r].pc \in {"UPLOADING", "FAILED_upload"}
                  /\ runs'[r].pc = "UPLOADING" <=> runs'[r].s3
                  /\ objects' = objects
           /\ (runs[r].pc = "UPLOADING" /\ Stepped(r)) =>
                  /\ runs'[r].pc \in {"UPLOADED", "FAILED_upload"}
                  /\ runs'[r].pc = "UPLOADED" <=>
                         (runs'[r].uploaded /\ r2_key(runs[r].movie_id) \in objects')
                  /\ runs'[r].pc = "FAILED_upload" => objects' = objects
           /\ runs'[r].pc = "FAILED_upload" =>
                  /\ runs'[r].status = HTTP_500
                  /\ ~runs'[r].uploaded
           /\ runs[r].pc = "FAILED_upload" => ~Stepped(r)
      ]_vars

\* one report failed making the client and another failed in the upload
C4_Witness ==
    \E r, q \in Runs :
        /\ runs[r].pc = "FAILED_upload" /\ ~runs[r].s3
        /\ runs[q].pc = "FAILED_upload" /\ runs[q].s3

\* C5: when the insert fails after the upload succeeded (a database error, or
\* a movieId the table already holds) the report ends with 500, no row is
\* added, the uploaded object stays in the bucket, nothing is ever deleted
\* from the bucket and the run takes no further step (no retry).
C5_PersistFailure ==
    [][/\ objects \subseteq objects'
       /\ \A r \in Runs :
              /\ (runs[r].pc = "PERSISTING" /\ Stepped(r)) =>
                     /\ runs'[r].pc \in {"DONE", "FAILED_persist"}
                     /\ RowsWith(videos, runs[r].movie_id) # {} =>
                            runs'[r].pc = "FAILED_persist"
              /\ (runs[r].pc = "PERSISTING" /\ runs'[r].pc = "FAILED_persist") =>
                     /\ runs'[r].status = HTTP_500
                     /\ videos' = videos
                     /\ objects' = objects
              /\ runs'[r].pc = "FAILED_persist" =>
                     /\ runs'[r].uploaded
                     /\ r2_key(runs'[r].movie_id) \in objects'
              /\ runs[r].pc = "FAILED_persist" => ~Stepped(r)
      ]_vars

\* an insert failed on a movieId that another run's record holds, and one
\* failed with no such record (a database error)
C5_Witness ==
    \E r, q \in Runs :
        /\ runs[r].pc = "FAILED_persist"
        /\ RowsWith(videos, runs[r].movie_id) # {}
        /\ runs[q].pc = "DONE"
        /\ runs[q].movie_id = runs[r].movie_id

\* the stage order of report_agereport: each position and the one it follows
StageOrder ==
    {<<"idle", "FETCHING">>,
     <<"FETCHING", "FETCHED">>, <<"FETCHING", "FAILED_fetch">>,
     <<"FETCHED", "UPLOADING">>, <<"FETCHED", "FAILED_upload">>,
     <<"UPLOADING", "UPLOADED">>, <<"UPLOADING", "FAILED_upload">>,
     <<"UPLOADED", "PERSISTING">>, <<"UPLOADED", "FAILED_connect">>,
     <<"PERSISTING", "DONE">>, <<"PERSISTING", "FAILED_persist">>}

\* C6: within one run the stages happen only in the order fetch, upload,
\* persist, respond: every step of a run moves it one position forward (none
\* skipped, none entered twice), the upload is started only with a 200
\* response in hand, the persist stage only with the upload done and its
\* object stored, and 201 is answered only with the record committed.
C6_StageOrder ==
    [][\A r \in Runs :
           /\ Stepped(r) => <<runs[r].pc, runs'[r].pc>> \in StageOrder
           /\ runs'[r].pc \in {"UPLOADING", "UPLOADED", "PERSISTING", "DONE"} =>
                  runs'[r].resp_status = HTTP_200
           /\ runs'[r].pc \in {"PERSISTING", "DONE"} =>
                  /\ runs'[r].uploaded
                  /\ r2_key(runs'[r].movie_id) \in objects'
           /\ (runs'[r].status = HTTP_201_CREATED \/ runs'[r].pc = "DONE") =>
                  /\ runs'[r].pc = "DONE"
                  /\ runs'[r].status = HTTP_201_CREATED
                  /\ RowsWith(videos', runs'[r].ret) # {}
      ]_vars

\* one run went through every stage to DONE while another is still uploading
C6_Witness ==
    \E r, q \in Runs :
        /\ runs[r].pc = "DONE" /\ runs[r].status = HTTP_201_CREATED
        /\ runs[q].pc = "UPLOADING"

\* C7: for any interleaving of report runs, no two rows share a movieId, and
\* every run that reached DONE has exactly one row under the movieId it
\* returned, which a bulk fetch of that movieId returns.
C7_UniqueMovieId ==
    /\ \A i, j \in 1..Len(videos) :
           videos[i].movieId = videos[j].movieId => i = j
    /\ \A r \in Runs :
           runs[r].pc = "DONE" =>
               /\ runs[r].ret = runs[r].movie_id
               /\ Cardinality(RowsWith(videos, runs[r].ret)) = 1
               /\ \A i \in RowsWith(videos, runs[r].ret) :
                      /\ videos[i].location = runs[r].report.location
                      /\ videos_bulk(videos, <<runs[r].ret>>) = <<row_to_video(videos[i])>>
    /\ \A r, q \in Runs :
           (runs[r].pc = "DONE" /\ runs[q].pc = "DONE" /\ r # q) =>
               runs[r].ret # runs[q].ret

\* two runs for the same location are both DONE, each with its own row
C7_Witness ==
    \E r, q \in Runs :
        /\ r # q
        /\ runs[r].pc = "DONE" /\ runs[q].pc = "DONE"
        /\ runs[r].report.location = runs[q].report.location
        /\ Len(videos) = 2

---------------------------------------------------------------------------
(* Properties of the read endpoints *)

\* the row of a table that holds a movieId
RowOf(table, movie_id) == table[CHOOSE i \in 1..Len(table) : table[i].movieId = movie_id]

Tokens(tags) == {split(tags)[k] : k \in 1..Len(split(tags))}

\* the tags a search filters by
Wanted(tags) ==
    IF tags = <<>> THEN {}
    ELSE {tag_list(tags[1])[k] : k \in 1..Len(tag_list(tags[1]))}

\* C9: a search by tags returns only records in which every wanted tag is a
\* whole comma-delimited piece of the stored tag string, and returns every
\* such record (that also matches q) up to the limit.
C9_TagSearch ==
    (reply.op = "list_videos" /\ reply.db = "ok") =>
        LET wanted == Wanted(reply.args.tags)
            q == reply.args.q
            hits == {i \in 1..Len(videos) :
                        /\ wanted \subseteq Tokens(videos[i].tags)
                        /\ (q # <<>> /\ q[1] # <<>>) => q_clause(videos[i], q[1])}
        IN  /\ \A k \in 1..Len(reply.body) :
                   wanted \subseteq Tokens(RowOf(videos, reply.body[k].movieId).tags)
            /\ Len(reply.body) = Min(reply.args.limit, Cardinality(hits))

\* the pieces of the tag strings of all rows, the rows taken in the order ord
RECURSIVE Scan(_, _)
Scan(table, ord) ==
    IF ord = <<>> THEN <<>>
    ELSE strip_nonempty(split(table[Head(ord)].tags)) \o Scan(table, Tail(ord))

FirstAt(seq, x) == CHOOSE k \in 1..Len(seq) : seq[k] = x /\ \A j \in 1..(k - 1) : seq[j] # x

\* body lists every piece of scan once, in the order of first appearance
FirstAppearance(body, scan) ==
    /\ {body[k] : k \in 1..Len(body)} = {scan[k] : k \in 1..Len(scan)}
    /\ \A i, j \in 1..Len(body) : i < j => body[i] # body[j]
    /\ \A i, j \in 1..Len(body) : i < j => FirstAt(scan, body[i]) < FirstAt(scan, body[j])

\* C10: list tags returns every tag of every record exactly once, in order of
\* first appearance when the records are scanned oldest-created-first; stated
\* for the tables in which no two records share an instant, where that scan
\* is one order.
C10_ListTags ==
    (/\ reply.op = "list_tags" /\ reply.db = "ok"
     /\ \A i, j \in 1..Len(videos) : videos[i].createdAt = videos[j].createdAt => i = j)
    => \A ord \in Orderings(videos, 1..Len(videos), FALSE) :
           FirstAppearance(reply.body, Scan(videos, ord))

---------------------------------------------------------------------------
(* Properties of the whole service *)

\* the tag list a report is to store: the caller's when the request carries
\* one, else the fixed default
TagsToStore(report) ==
    IF report.tags # <<>> /\ report.tags[1] # <<>> THEN report.tags[1] ELSE DEFAULT_TAGS

\* C11: the tags stored by a successful report are the caller-supplied list
\* when the request carries tags and the fixed default set otherwise, each
\* tag trimmed, empty tags dropped, the rest joined with commas in order.
C11_StoredTags ==
    \A r \in Runs :
        runs[r].pc = "DONE" =>
            \A i \in RowsWith(videos, runs[r].ret) :
                videos[i].tags = join(strip_nonempty(TagsToStore(runs[r].report)))

\* the report runs that hold a connection: get_conn has returned and
\* conn.close() has not run yet
HoldingConn == {r \in Runs : runs[r].pc = "PERSISTING"}

\* C12: every connection a request acquires is closed before the request
\* returns, on every exit path; the connections open are exactly those of the
\* reports between get_conn and their insert's outcome, so with no request in
\* flight none is open.
C12_ConnectionsClosed ==
    /\ open_conns = Cardinality(HoldingConn)
    /\ (\A r \in Runs : runs[r].pc \in Terminal \cup {"idle"}) => open_conns = 0

\* a get_camera answered NotFound after a report failed at the insert, both
\* having closed their connections
C12_Witness ==
    /\ reply.op = "get_camera" /\ reply.status = HTTP_404
    /\ \E r \in Runs : runs[r].pc = "FAILED_persist"
    /\ \A r \in Runs : runs[r].pc \in Terminal \cup {"idle"}
    /\ open_conns = 0

\* the runs that reach DONE in this step
ReachDone == {r \in Runs : runs[r].pc # "DONE" /\ runs'[r].pc = "DONE"}

\* C13: the videos table only grows: a step adds one row exactly when a
\* report run reaches DONE in it (that run's row, at the end) and none
\* otherwise, every row already stored stays as it was, and search, list tags,
\* bulk fetch and get camera leave both tables unchanged.
C13_TablesOnlyGrow ==
    [][/\ Len(videos') >= Len(videos)
       /\ SubSeq(videos', 1, Len(videos)) = videos
       /\ Len(videos') = Len(videos) + Cardinality(ReachDone)
       /\ Cardinality(ReachDone) <= 1
       /\ \A r \in ReachDone : videos'[Len(videos')].movieId = runs'[r].ret
       /\ cameras' = cameras
       /\ (reply' # reply /\ reply' # NoReply) => videos' = videos /\ cameras' = cameras]_vars

\* a search answered with the row of the one report that reached DONE, while
\* another report failed at the insert and added none
C13_Witness ==
    /\ Len(videos) = 1
    /\ \E r \in Runs : runs[r].pc = "DONE" /\ videos[1].movieId = runs[r].ret
    /\ \E r \in Runs : runs[r].pc = "FAILED_persist"
    /\ reply.op = "list_videos" /\ reply.status = HTTP_200 /\ Len(reply.body) = 1
    /\ cameras = ProvisionedCameras

\* a terminal run does not step again: one outcome, reported once
OneOutcome == [][\A r \in Runs : runs[r].pc \in Terminal => runs'[r] = runs[r]]_vars

\* C14 as stated: every started run eventually reaches one of DONE,
\* FAILED(fetch), FAILED(upload), FAILED(persist), and reports no second outcome.
C14_Original ==
    /\ \A r \in Runs : (runs[r].pc # "idle") ~> (runs[r].pc \in NamedOutcomes)
    /\ OneOutcome

\* C14: every started run eventually reaches exactly one terminal outcome,
\* DONE, FAILED(fetch), FAILED(upload), FAILED(persist) or the 503 of a failed
\* database connect, given that every blocking call returns or raises; it
\* stays in no intermediate stage forever, and once terminal it never changes.
C14_Terminates ==
    /\ \A r \in Runs :
           (runs[r].pc # "idle") ~> (runs[r].pc \in Terminal /\ runs[r].status # 0)
    /\ OneOutcome

\* one run has ended DONE and another with the 503 of a failed connect
C14_Witness ==
    /\ \E r \in Runs : runs[r].pc = "DONE" /\ runs[r].status = HTTP_201_CREATED
    /\ \E r \in Runs : runs[r].pc = "FAILED_connect" /\ runs[r].status = HTTP_503

====
